---- MODULE Spec2Model ----
(***************************************************************************)
(* Model of ComunicacionTCPConfiable (src/tcp_comunicacion_confiable.py):  *)
(* two instances of the class, an initiator "cli" (es_servidor = False)    *)
(* and an acceptor "srv" (es_servidor = True), joined by TCP connections.  *)
(*                                                                         *)
(* Threads of an instance: the caller of iniciar()/cerrar() ("main"), the  *)
(* callers of enviar_mensaje ("s1", "s2"), the heartbeat thread ("hb"),    *)
(* the accept thread ("acc") and one receive thread per _manejar_cliente   *)
(* ("rx", k).  A thread's step runs from one blocking call (recv, sendall, *)
(* connect, accept, sleep) to the next; the blocking call's effect is the  *)
(* last thing a step does.  Time is abstracted: a wait window of           *)
(* _esperar_ack may expire at any moment.                                  *)
(***************************************************************************)
EXTENDS Integers, Sequences, FiniteSets, TLC

(* ------------------------------ bounds --------------------------------- *)
\* socket objects that can be created in one run (two per connection, one
\* per failed connect attempt)
MaxSock == 5
\* enviar_mensaje calls per run
MaxCalls == 2
\* heartbeats written per instance
MaxBeats == 1
\* link failures injected by the network
MaxFaults == 1
\* enviar_mensaje calls per run where the transport may fail
MaxCallsFallo == 1
\* frames written on the connection whose bytes are followed
MaxMensajes == 3
\* handshakes the 4-way client starts; copies of a datagram the network may add
MaxConexiones4 == 2
MaxDuplicados4 == 2

(* ------------------------- program constants --------------------------- *)
\* self.max_reintentos = 3
max_reintentos == 3

Inst == {"cli", "srv"}
es_servidor(i) == i = "srv"
Peer(i) == IF i = "cli" THEN "srv" ELSE "cli"
Senders == {"s1", "s2"}
Contenidos == {"hola"}

Socks == 1..MaxSock
\* thread identifiers: <<instance, kind, index>>
Named == {"main", "s1", "s2", "hb", "acc"}
Thr == {<<i, n, 0>> : i \in Inst, n \in Named} \cup
       {<<i, "rx", k>> : i \in Inst, k \in Socks}

VARIABLES
  ejecutando,          \* [Inst -> BOOLEAN]        self.ejecutando
  conexion_activa,     \* [Inst -> BOOLEAN]        self.conexion_activa
  socket_cliente,      \* [Inst -> 0..MaxSock]     self.socket_cliente (0: None)
  socket_principal,    \* [Inst -> state]          self.socket_principal
  mensajes_pendientes, \* [Inst -> [ids -> frame]] self.mensajes_pendientes
  acks_recibidos,      \* [Inst -> SUBSET Nat]     self.acks_recibidos
  mensaje_id,          \* [Inst -> Nat]            self.mensaje_id
  stats,               \* [Inst -> record]         self.stats
  th,                  \* [Thr -> record]          position and locals of each thread
  nrx,                 \* [Inst -> Nat]            receive threads spawned so far
  sock,                \* [Socks -> record]        socket objects
  nsock,               \* sockets created so far
  inbox,               \* [Socks -> Seq(frame)]    frames written by the peer, not yet read
  backlog,             \* accepted-by-kernel sockets awaiting accept()
  linkdown,            \* sockets whose connection the network has reset
  delivered,           \* [Inst -> Seq]            callback invocations, in order
  budget               \* what the environment may still do

\* the 4-way handshake pair of protocolo_peticion_respuesta.py
VARIABLES
  conexiones_4vias,    \* [Nodos4 -> [ids -> [estado, paso]]]  self.conexiones_4vias
  datagramas,          \* the UDP datagrams in flight
  pc4                  \* [Nodos4 -> id]  the call in progress of each node, 0: none

vars4 == <<conexiones_4vias, datagramas, pc4>>
varsTCP == <<ejecutando, conexion_activa, socket_cliente, socket_principal,
             mensajes_pendientes, acks_recibidos, mensaje_id, stats, th, nrx,
             sock, nsock, inbox, backlog, linkdown, delivered>>
vars == <<ejecutando, conexion_activa, socket_cliente, socket_principal,
          mensajes_pendientes, acks_recibidos, mensaje_id, stats, th, nrx,
          sock, nsock, inbox, backlog, linkdown, delivered, budget,
          conexiones_4vias, datagramas, pc4>>

(* ------------------- 4-way handshake: data and start -------------------- *)
\* Cliente4Vias is "Cliente4V" (receives on 5004), Servidor4Vias is
\* "Servidor4V" (receives on 5005)
Nodos4 == {"Cliente4V", "Servidor4V"}
\* conexion_id = int(time.time() * 1000): calls at least a millisecond apart
\* get increasing ids
Ids4 == 1..MaxConexiones4
Conexion4(e, p) == [estado |-> e, paso |-> p]
SinConexiones == [x \in {} |-> Conexion4("", 0)]
\* a JSON datagram; destino stands for the port it was sent to
Datagrama(tipo, id, sec, dst) ==
  [tipo |-> tipo, conexion_id |-> id, secuencia |-> sec, destino |-> dst]
\* self.conexiones_4vias = {} in both constructors, nothing sent
Sin4Vias ==
  /\ conexiones_4vias = [n \in Nodos4 |-> SinConexiones]
  /\ datagramas = {}
  /\ pc4 = [n \in Nodos4 |-> 0]

(* ------------------------------ frames --------------------------------- *)
NoFrame == [tipo |-> "NONE", id |-> 0, mensaje_id |-> 0, contenido |-> "",
            remitente |-> "", requiere_ack |-> FALSE]
Mensaje(id, c, r, req) ==
  [tipo |-> "MENSAJE", id |-> id, mensaje_id |-> 0, contenido |-> c,
   remitente |-> r, requiere_ack |-> req]
AckFrame(id) == [NoFrame EXCEPT !.tipo = "ACK", !.mensaje_id = id]
Heartbeat(r) == [NoFrame EXCEPT !.tipo = "HEARTBEAT", !.remitente = r]
HeartbeatResponse == [NoFrame EXCEPT !.tipo = "HEARTBEAT_RESPONSE"]
\* frames a peer can write that the receive loop cannot take apart: a zero
\* length prefix, a payload that is not UTF-8, a payload that is not JSON, a
\* JSON value that is not an object
TiposMalformados == {"VACIO", "NOTEXTO", "NOJSON", "NOOBJETO"}
\* a JSON object whose 'tipo' is none of the four the dispatcher knows
TipoDesconocido == "OTRO"
Trama(k) == [NoFrame EXCEPT !.tipo = k]

(* --------------------------- initial state ----------------------------- *)
EmptyMap == [x \in {} |-> NoFrame]
Stats0 == [mensajes_enviados |-> 0, mensajes_recibidos |-> 0, acks_enviados |-> 0,
           acks_recibidos |-> 0, reconexiones |-> 0, errores |-> 0]
NoSock == [own |-> "cli", st |-> "unused", peer |-> 0]
\* locals of a thread.  pc: position; ret: the call site the failure path returns
\* to; sk: the socket_cliente argument of _manejar_cliente; csk: the socket being
\* connected; cr: reintentos of _conectar_servidor; rt: reintentos of
\* _esperar_ack; wid: the mensaje_id argument of _esperar_ack; fid: the id
\* carried by the frame this call wrote; res: the call's result; retx:
\* retransmissions attempted by this call; reg: this call registered a
\* PendingEntry; acked: an ACK naming fid was processed during this call;
\* f: the frame being sent or processed; ackw: outcome of the ACK write for f;
\* ld: the value of self.mensaje_id loaded by the increment of line 273.
\* Where the model follows the bytes of the stream: datos: the bytes gathered
\* so far by _recibir_completo; lon: longitud_mensaje; dec: the frames decoded
\* so far (ghost); frag: some recv returned fewer bytes than asked (ghost).
\* vis: the MENSAJE frames this receive thread's dispatcher has taken (ghost).
\* dur: the seconds of the sleep that followed the last failed connect
\* attempt of the connect sequence in progress (0: it was followed by none).
Thread0 == [pc |-> "none", ret |-> "none", sk |-> 0, csk |-> 0, cr |-> 0, rt |-> 0,
            wid |-> 0, fid |-> 0, req |-> FALSE, res |-> "none", retx |-> 0,
            reg |-> FALSE, acked |-> FALSE, f |-> NoFrame, ackw |-> "none", ld |-> 0,
            datos |-> << >>, lon |-> 0, dec |-> << >>, frag |-> FALSE, dur |-> 0,
            vis |-> {}]

InitWith(b) ==
  /\ ejecutando = [i \in Inst |-> FALSE]
  /\ conexion_activa = [i \in Inst |-> FALSE]
  /\ socket_cliente = [i \in Inst |-> 0]
  /\ socket_principal = [i \in Inst |-> "none"]
  /\ mensajes_pendientes = [i \in Inst |-> EmptyMap]
  /\ acks_recibidos = [i \in Inst |-> {}]
  /\ mensaje_id = [i \in Inst |-> 0]
  /\ stats = [i \in Inst |-> Stats0]
  /\ th = [t \in Thr |->
            IF t[2] = "main" THEN [Thread0 EXCEPT !.pc = "init"]
            ELSE IF t[2] \in Senders THEN [Thread0 EXCEPT !.pc = "idle"]
            ELSE Thread0]
  /\ nrx = [i \in Inst |-> 0]
  /\ sock = [s \in Socks |-> NoSock]
  /\ nsock = 0
  /\ inbox = [s \in Socks |-> << >>]
  /\ backlog = << >>
  /\ linkdown = {}
  /\ delivered = [i \in Inst |-> << >>]
  /\ budget = b
  /\ Sin4Vias

(* ----------------------------- helpers --------------------------------- *)
nombre(i) == IF i = "cli" THEN "Cliente" ELSE "Servidor"
\* variant of Inc: a counter moves by two
IncDoble(st, i, k) == [st EXCEPT ![i][k] = @ + 2]
\* self.stats[k] += 1
Inc(st, i, k) == [st EXCEPT ![i][k] = @ + 1]
Put(p, id, m) == [x \in (DOMAIN p) \cup {id} |-> IF x = id THEN m ELSE p[x]]
Del(p, id) == [x \in (DOMAIN p) \ {id} |-> p[x]]

\* socket.close(): closing None or a closed socket changes nothing
CloseSock(sk, s) == IF s = 0 THEN sk ELSE [sk EXCEPT ![s].st = "closed"]
PeerClosed(s) == sock[s].peer # 0 /\ sock[sock[s].peer].st = "closed"

\* sendall on socket s: fails on None (AttributeError), on a socket that is
\* closed or not connected, and on a reset connection; after the peer has
\* closed its end the kernel may still accept the bytes
WriteOutcomes(s) ==
  IF s = 0 THEN {"fail"}
  ELSE IF sock[s].st # "open" \/ s \in linkdown THEN {"fail"}
  ELSE IF PeerClosed(s) THEN {"ok", "fail"}
  ELSE {"ok"}

\* the bytes of frame f written on s reach the peer's receive buffer
Sent(s, f) ==
  IF sock[sock[s].peer].st = "open"
  THEN [inbox EXCEPT ![sock[s].peer] = Append(@, f)]
  ELSE inbox

\* recv on socket s returns no data: None argument, closed or unconnected
\* socket, reset connection, or end of stream
RecvFails(s) ==
  \/ s = 0
  \/ sock[s].st # "open"
  \/ s \in linkdown
  \/ inbox[s] = << >> /\ PeerClosed(s)

\* variant of AfterMark: the failure path never reconnects
AfterMarkNunca(i, thr, r) == [thr EXCEPT !.pc = "ret", !.ret = r]

\* variant of AfterMark: the failure path reconnects whatever the role
AfterMarkSiempre(i, thr, r) ==
  IF ejecutando[i]
  THEN [thr EXCEPT !.pc = "con_begin", !.cr = 0, !.dur = 0, !.ret = r]
  ELSE [thr EXCEPT !.pc = "ret", !.ret = r]

\* _manejar_error_conexion, lines 371-375: where the thread goes after marking
\* the connection inactive
AfterMark(i, thr, r) ==
  IF ~es_servidor(i) /\ ejecutando[i]
  THEN [thr EXCEPT !.pc = "con_begin", !.cr = 0, !.dur = 0, !.ret = r]
  ELSE [thr EXCEPT !.pc = "ret", !.ret = r]

\* _manejar_error_conexion, lines 362-369
MarkInactive(i) ==
  /\ conexion_activa' = [conexion_activa EXCEPT ![i] = FALSE]
  /\ sock' = CloseSock(sock, socket_cliente[i])
  /\ socket_cliente' = [socket_cliente EXCEPT ![i] = 0]

\* _enviar_mensaje_raw(f, s) by thread t whose locals are thr: on success the
\* thread continues at okpc; on failure it enters _manejar_error_conexion and
\* will return False to call site r
enviar_mensaje_raw(t, thr, s, f, r, okpc) ==
  \E o \in WriteOutcomes(s) :
    IF o = "ok"
    THEN /\ inbox' = Sent(s, f)
         /\ th' = [th EXCEPT ![t] = [thr EXCEPT !.pc = okpc]]
         /\ UNCHANGED <<conexion_activa, socket_cliente, sock>>
    ELSE /\ MarkInactive(t[1])
         /\ th' = [th EXCEPT ![t] = AfterMark(t[1], thr, r)]
         /\ UNCHANGED inbox

\* _limpiar_conexion(s), in the finally of _manejar_cliente
limpiar_conexion(i, s) ==
  /\ conexion_activa' = [conexion_activa EXCEPT ![i] = FALSE]
  /\ sock' = CloseSock(sock, s)

\* the loop test of _manejar_cliente (line 165)
RxRunning(i, ca) == ejecutando[i] /\ ca[i]

\* a thread started by threading.Thread(target=_manejar_cliente, args=(s,))
SpawnRx(thf, i, s) ==
  [thf EXCEPT ![<<i, "rx", nrx[i] + 1>>] = [Thread0 EXCEPT !.pc = "rx_loop", !.sk = s]]

(* --------------------- iniciar / _iniciar_servidor --------------------- *)
Iniciar(t) ==
  LET i == t[1] IN
  /\ t[2] = "main" /\ th[t].pc = "init"
  /\ ejecutando' = [ejecutando EXCEPT ![i] = TRUE]
  /\ IF es_servidor(i)
     THEN \E ok \in (IF budget.bindfail THEN BOOLEAN ELSE {TRUE}) :
            /\ socket_principal' = [socket_principal EXCEPT ![i] =
                                      IF ok THEN "listening" ELSE "unbound"]
            /\ stats' = IF ok THEN stats ELSE Inc(stats, i, "errores")
            /\ th' = [th EXCEPT ![t].pc = "started",
                                ![<<i, "hb", 0>>].pc = "hb_sleep",
                                ![<<i, "acc", 0>>].pc = IF ok THEN "acc_wait" ELSE "none"]
     ELSE /\ th' = [th EXCEPT ![t].pc = "con_begin", ![t].cr = 0, ![t].dur = 0,
                              ![t].ret = "ini"]
          /\ UNCHANGED <<socket_principal, stats>>
  /\ UNCHANGED <<conexion_activa, socket_cliente, mensajes_pendientes, acks_recibidos,
                 mensaje_id, nrx, sock, nsock, inbox, backlog, linkdown, delivered,
                 budget>>
  /\ UNCHANGED vars4

(* ------------------------- _conectar_servidor -------------------------- *)
\* variant of SigueConectando: the loop never gives up
SigueConectandoSiempre(ej, n) == ej

\* the loop test of line 111
SigueConectando(ej, n) == ej /\ n < max_reintentos

\* lines 111-115: loop test, socket(), the assignment to self.socket_cliente,
\* and the call of connect
ConBegin(t) ==
  LET i == t[1] IN
  /\ th[t].pc = "con_begin"
  /\ IF SigueConectando(ejecutando[i], th[t].cr)
     THEN /\ nsock < MaxSock
          /\ nsock' = nsock + 1
          /\ sock' = [sock EXCEPT ![nsock + 1] = [own |-> i, st |-> "fresh", peer |-> 0]]
          /\ socket_cliente' = [socket_cliente EXCEPT ![i] = nsock + 1]
          /\ th' = [th EXCEPT ![t].pc = "con_end", ![t].csk = nsock + 1]
     ELSE /\ th' = [th EXCEPT ![t].pc = "ret"]
          /\ UNCHANGED <<nsock, sock, socket_cliente>>
  /\ UNCHANGED <<ejecutando, conexion_activa, socket_principal, mensajes_pendientes,
                 acks_recibidos, mensaje_id, stats, nrx, inbox, backlog, linkdown,
                 delivered, budget>>
  /\ UNCHANGED vars4

\* variant of StatsAlConectar: a new connection starts from zeroed counters
StatsAlConectarCero(st, i, n) == [st EXCEPT ![i] = Stats0]

\* variant of StatsAlConectar: every successful connect counts as a reconnection
StatsAlConectarSiempre(st, i, n) == Inc(st, i, "reconexiones")

\* lines 125-126: what a successful connect does to the counters
StatsAlConectar(st, i, n) == IF n > 0 THEN Inc(st, i, "reconexiones") ELSE st

\* connect returned: lines 117-128
ConOk(t) ==
  LET i == t[1]
      c == th[t].csk
      a == nsock + 1 IN
  /\ th[t].pc = "con_end"
  /\ sock[c].st = "fresh"
  /\ socket_principal[Peer(i)] = "listening"
  /\ nsock < MaxSock
  /\ nsock' = a
  /\ sock' = [sock EXCEPT ![c] = [@ EXCEPT !.st = "open", !.peer = a],
                          ![a] = [own |-> Peer(i), st |-> "open", peer |-> c]]
  /\ backlog' = Append(backlog, a)
  /\ conexion_activa' = [conexion_activa EXCEPT ![i] = TRUE]
  /\ th' = [SpawnRx(th, i, socket_cliente[i]) EXCEPT ![t].pc = "ret", ![t].csk = 0]
  /\ nrx' = [nrx EXCEPT ![i] = @ + 1]
  /\ stats' = StatsAlConectar(stats, i, th[t].cr)
  /\ UNCHANGED <<ejecutando, socket_cliente, socket_principal, mensajes_pendientes,
                 acks_recibidos, mensaje_id, inbox, linkdown, delivered, budget>>
  /\ UNCHANGED vars4

\* variant of Backoff: the same pause after every failure
BackoffFijo(n) == 2

\* line 136: the seconds slept after failed attempt n
Backoff(n) == 2 ^ n

\* connect raised: lines 130-138.  The peer is not listening, the socket was
\* closed under the connect, or the network refuses this attempt.  After the
\* last failure there is no sleep: the loop test of line 111 follows at once.
ConFail(t) ==
  LET i == t[1]
      c == th[t].csk
      n == th[t].cr + 1 IN
  /\ th[t].pc = "con_end"
  /\ \/ /\ sock[c].st # "fresh" \/ socket_principal[Peer(i)] # "listening"
        /\ UNCHANGED budget
     \/ /\ sock[c].st = "fresh" /\ socket_principal[Peer(i)] = "listening"
        /\ budget.faults > 0
        /\ budget' = [budget EXCEPT !.faults = @ - 1]
  /\ th' = [th EXCEPT ![t].cr = n, ![t].csk = 0,
                      ![t].dur = IF n < max_reintentos THEN Backoff(n) ELSE 0,
                      ![t].pc = IF n < max_reintentos \/ SigueConectando(ejecutando[i], n)
                                THEN "con_begin" ELSE "ret"]
  /\ stats' = IF n < max_reintentos THEN stats ELSE Inc(stats, i, "errores")
  /\ UNCHANGED <<ejecutando, conexion_activa, socket_cliente, socket_principal,
                 mensajes_pendientes, acks_recibidos, mensaje_id, nrx, sock, nsock,
                 inbox, backlog, linkdown, delivered>>
  /\ UNCHANGED vars4

(* ------------------------- _aceptar_conexiones ------------------------- *)
\* accept() returned a connection: lines 146-155, then the loop test
AccAccept(t) ==
  LET i == t[1]
      a == Head(backlog) IN
  /\ t[2] = "acc" /\ th[t].pc = "acc_wait"
  /\ socket_principal[i] = "listening"
  /\ backlog # << >>
  /\ backlog' = Tail(backlog)
  /\ socket_cliente' = [socket_cliente EXCEPT ![i] = a]
  /\ conexion_activa' = [conexion_activa EXCEPT ![i] = TRUE]
  /\ th' = [SpawnRx(th, i, a) EXCEPT ![t].pc = IF ejecutando[i] THEN "acc_wait" ELSE "done"]
  /\ nrx' = [nrx EXCEPT ![i] = @ + 1]
  /\ UNCHANGED <<ejecutando, socket_principal, mensajes_pendientes, acks_recibidos,
                 mensaje_id, stats, sock, nsock, inbox, linkdown, delivered, budget>>
  /\ UNCHANGED vars4

\* accept() raised because the listening socket was closed: lines 157-160
AccClosed(t) ==
  LET i == t[1] IN
  /\ t[2] = "acc" /\ th[t].pc = "acc_wait"
  /\ socket_principal[i] = "closed"
  /\ stats' = IF ejecutando[i] THEN Inc(stats, i, "errores") ELSE stats
  /\ th' = [th EXCEPT ![t].pc = IF ejecutando[i] THEN "acc_wait" ELSE "done"]
  /\ UNCHANGED <<ejecutando, conexion_activa, socket_cliente, socket_principal,
                 mensajes_pendientes, acks_recibidos, mensaje_id, nrx, sock, nsock,
                 inbox, backlog, linkdown, delivered, budget>>
  /\ UNCHANGED vars4

(* ---------------- _manejar_cliente / _procesar_mensaje_recibido -------- *)
\* the loop test of line 165 and, when it fails, the finally clause
RxLoop(t) ==
  LET i == t[1] IN
  /\ t[2] = "rx" /\ th[t].pc = "rx_loop"
  /\ IF RxRunning(i, conexion_activa)
     THEN /\ th' = [th EXCEPT ![t].pc = "rx_recv"]
          /\ UNCHANGED <<conexion_activa, sock>>
     ELSE /\ limpiar_conexion(i, th[t].sk)
          /\ th' = [th EXCEPT ![t].pc = "done"]
  /\ UNCHANGED <<ejecutando, socket_cliente, socket_principal, mensajes_pendientes,
                 acks_recibidos, mensaje_id, stats, nrx, nsock, inbox, backlog,
                 linkdown, delivered, budget>>
  /\ UNCHANGED vars4

\* _recibir_completo returned None: break, then the finally clause
RxClosed(t) ==
  LET i == t[1] IN
  /\ t[2] = "rx" /\ th[t].pc = "rx_recv"
  /\ RecvFails(th[t].sk)
  /\ limpiar_conexion(i, th[t].sk)
  /\ th' = [th EXCEPT ![t].pc = "done"]
  /\ UNCHANGED <<ejecutando, socket_cliente, socket_principal, mensajes_pendientes,
                 acks_recibidos, mensaje_id, stats, nrx, nsock, inbox, backlog,
                 linkdown, delivered, budget>>
  /\ UNCHANGED vars4

\* where the receive thread goes after a frame is dealt with: the loop test
\* again, and the finally clause when it fails.  thf: the threads' locals.
RxNext(t, thf) ==
  LET i == t[1]
      thr == [thf[t] EXCEPT !.f = NoFrame, !.ackw = "none"] IN
  IF RxRunning(i, conexion_activa)
  THEN /\ th' = [thf EXCEPT ![t] = [thr EXCEPT !.pc = "rx_recv"]]
       /\ UNCHANGED <<conexion_activa, sock>>
  ELSE /\ limpiar_conexion(i, th[t].sk)
       /\ th' = [thf EXCEPT ![t] = [thr EXCEPT !.pc = "done"]]

\* history: the enviar_mensaje calls in progress whose frame id an ACK names
\* have been acknowledged
Acusado(thf, i, id) ==
  [u \in Thr |-> IF u[1] = i /\ u[2] \in Senders /\ thf[u].pc # "idle" /\ thf[u].fid = id
                 THEN [thf[u] EXCEPT !.acked = TRUE] ELSE thf[u]]

\* variant of procesar_ack: an ACK empties the table
procesar_ack_vacia(i, m) ==
  /\ acks_recibidos' = [acks_recibidos EXCEPT ![i] = @ \cup {m.mensaje_id}]
  /\ mensajes_pendientes' = [mensajes_pendientes EXCEPT ![i] = EmptyMap]

\* the ACK branch, lines 226-233
procesar_ack(i, m) ==
  /\ acks_recibidos' = [acks_recibidos EXCEPT ![i] = @ \cup {m.mensaje_id}]
  /\ mensajes_pendientes' =
       [mensajes_pendientes EXCEPT ![i] =
          IF m.mensaje_id \in DOMAIN @ THEN Del(@, m.mensaje_id) ELSE @]

\* variant of DebeAck: no ACK is ever written
DebeAckNunca(m) == FALSE

\* the MENSAJE branch decides whether an ACK is written: line 240
DebeAck(m) == m.id # 0

\* a frame was read: _procesar_mensaje_recibido up to its write, if any
RxFrame(t) ==
  LET i == t[1]
      s == th[t].sk
      m == Head(inbox[s])
      thr == [th[t] EXCEPT !.f = m, !.ackw = "none",
                           !.vis = IF m.tipo = "MENSAJE" THEN @ \cup {m} ELSE @] IN
  /\ t[2] = "rx" /\ th[t].pc = "rx_recv"
  /\ s # 0 /\ sock[s].st = "open" /\ inbox[s] # << >>
  /\ m.tipo \notin TiposMalformados
  /\ stats' = IF m.tipo = "ACK"
              THEN Inc(Inc(stats, i, "mensajes_recibidos"), i, "acks_recibidos")
              ELSE Inc(stats, i, "mensajes_recibidos")
  /\ CASE m.tipo = "HEARTBEAT" ->
            /\ \E o \in WriteOutcomes(s) :
                 IF o = "ok"
                 THEN /\ inbox' = [Sent(s, HeartbeatResponse) EXCEPT ![s] = Tail(@)]
                      /\ th' = [th EXCEPT ![t] = [thr EXCEPT !.pc = "rx_loop"]]
                      /\ UNCHANGED <<conexion_activa, socket_cliente, sock>>
                 ELSE /\ MarkInactive(i)
                      /\ th' = [th EXCEPT ![t] = AfterMark(i, thr, "rx_hb")]
                      /\ inbox' = [inbox EXCEPT ![s] = Tail(@)]
            /\ UNCHANGED <<acks_recibidos, mensajes_pendientes, delivered>>
       [] m.tipo = "ACK" ->
            /\ procesar_ack(i, m)
            /\ RxNext(t, Acusado(th, i, m.mensaje_id))
            /\ inbox' = [inbox EXCEPT ![s] = Tail(@)]
            /\ UNCHANGED <<socket_cliente, delivered>>
       [] m.tipo = "MENSAJE" /\ DebeAck(m) ->
            /\ \E o \in WriteOutcomes(s) :
                 IF o = "ok"
                 THEN /\ inbox' = [Sent(s, AckFrame(m.id)) EXCEPT ![s] = Tail(@)]
                      /\ th' = [th EXCEPT ![t] = [thr EXCEPT !.pc = "rx_deliver", !.ackw = "ok"]]
                      /\ UNCHANGED <<conexion_activa, socket_cliente, sock>>
                 ELSE /\ MarkInactive(i)
                      /\ th' = [th EXCEPT ![t] = AfterMark(i, [thr EXCEPT !.ackw = "fail"], "rx_ack")]
                      /\ inbox' = [inbox EXCEPT ![s] = Tail(@)]
            /\ UNCHANGED <<acks_recibidos, mensajes_pendientes, delivered>>
       [] m.tipo = "MENSAJE" /\ ~DebeAck(m) ->
            /\ delivered' = [delivered EXCEPT ![i] = Append(@, <<m.contenido, m.remitente>>)]
            /\ RxNext(t, [th EXCEPT ![t] = thr])
            /\ inbox' = [inbox EXCEPT ![s] = Tail(@)]
            /\ UNCHANGED <<acks_recibidos, mensajes_pendientes, socket_cliente>>
       [] OTHER ->
            /\ RxNext(t, th)
            /\ inbox' = [inbox EXCEPT ![s] = Tail(@)]
            /\ UNCHANGED <<acks_recibidos, mensajes_pendientes, socket_cliente, delivered>>
  /\ UNCHANGED <<ejecutando, socket_principal, mensaje_id, nrx, nsock, backlog,
                 linkdown, budget>>
  /\ UNCHANGED vars4

\* a frame was read that cannot be taken apart.  Zero length: the second
\* _recibir_completo returns b'' and line 175 breaks.  Not UTF-8: decode raises
\* in line 179, outside _procesar_mensaje_recibido, and lines 181-185 end the
\* loop.  Not JSON, or not an object: the handlers of lines 251-256 count an
\* error and the loop goes on.
RxMalformada(t) ==
  LET i == t[1]
      s == th[t].sk
      m == Head(inbox[s]) IN
  /\ t[2] = "rx" /\ th[t].pc = "rx_recv"
  /\ s # 0 /\ sock[s].st = "open" /\ inbox[s] # << >>
  /\ m.tipo \in TiposMalformados
  /\ inbox' = [inbox EXCEPT ![s] = Tail(@)]
  /\ stats' = IF m.tipo = "VACIO" THEN stats ELSE Inc(stats, i, "errores")
  /\ IF m.tipo \in {"VACIO", "NOTEXTO"}
     THEN /\ limpiar_conexion(i, s)
          /\ th' = [th EXCEPT ![t].pc = "done"]
     ELSE RxNext(t, th)
  /\ UNCHANGED <<ejecutando, socket_cliente, socket_principal, mensajes_pendientes,
                 acks_recibidos, mensaje_id, nrx, nsock, backlog, linkdown, delivered,
                 budget>>
  /\ UNCHANGED vars4

\* after the ACK write returned: lines 243-249, then the loop test
RxDeliver(t) ==
  LET i == t[1]
      m == th[t].f IN
  /\ t[2] = "rx" /\ th[t].pc = "rx_deliver"
  /\ stats' = Inc(stats, i, "acks_enviados")
  /\ delivered' = [delivered EXCEPT ![i] = Append(@, <<m.contenido, m.remitente>>)]
  /\ RxNext(t, th)
  /\ UNCHANGED <<ejecutando, socket_cliente, socket_principal, mensajes_pendientes,
                 acks_recibidos, mensaje_id, nrx, nsock, inbox, backlog, linkdown,
                 budget>>
  /\ UNCHANGED vars4

(* --------------------- enviar_mensaje / _esperar_ack ------------------- *)
\* the call has returned v to its caller
Returned(thr, v) == [thr EXCEPT !.pc = "idle", !.res = v, !.f = NoFrame]

\* variant of NoConectado: the call never gives up before writing
NoConectadoNunca(ca, sc) == FALSE

\* the connection test of line 269
NoConectado(ca, sc) == ~ca \/ sc = 0

\* lines 269-284: the connection test, the id allocation, the frame and its write
EnviarMensaje(t, c, req) ==
  LET i == t[1]
      id == mensaje_id[i] + 1
      m == Mensaje(id, c, nombre(i), req)
      thr == [Thread0 EXCEPT !.req = req, !.f = m, !.fid = id] IN
  /\ t[2] \in Senders /\ th[t].pc = "idle"
  /\ budget.calls[t] > 0
  /\ budget' = [budget EXCEPT !.calls[t] = @ - 1]
  /\ IF NoConectado(conexion_activa[i], socket_cliente[i])
     THEN /\ th' = [th EXCEPT ![t] = Returned([Thread0 EXCEPT !.req = req], "False")]
          /\ UNCHANGED <<mensaje_id, inbox, conexion_activa, socket_cliente, sock>>
     ELSE /\ mensaje_id' = [mensaje_id EXCEPT ![i] = id]
          /\ enviar_mensaje_raw(t, thr, socket_cliente[i], m, "snd_w", "snd_sent")
  /\ UNCHANGED <<ejecutando, socket_principal, mensajes_pendientes, acks_recibidos,
                 stats, nrx, nsock, backlog, linkdown, delivered>>
  /\ UNCHANGED vars4

\* The same lines as EnviarMensaje, for callers that run concurrently: the
\* interpreter may switch threads between the load and the store of
\* 'self.mensaje_id += 1' (line 273) and before the frame reads self.mensaje_id
\* again (line 276).
\* lines 269-273: the connection test and the load of self.mensaje_id
EnviarLeer(t, c, req) ==
  LET i == t[1] IN
  /\ t[2] \in Senders /\ th[t].pc = "idle"
  /\ budget.calls[t] > 0
  /\ budget' = [budget EXCEPT !.calls[t] = @ - 1]
  /\ th' = [th EXCEPT ![t] =
              IF NoConectado(conexion_activa[i], socket_cliente[i])
              THEN Returned([Thread0 EXCEPT !.req = req], "False")
              ELSE [Thread0 EXCEPT !.pc = "snd_inc", !.req = req, !.ld = mensaje_id[i],
                                   !.f = Mensaje(0, c, nombre(i), req)]]
  /\ UNCHANGED <<ejecutando, conexion_activa, socket_cliente, socket_principal,
                 mensajes_pendientes, acks_recibidos, mensaje_id, stats, nrx, sock,
                 nsock, inbox, backlog, linkdown, delivered>>
  /\ UNCHANGED vars4

\* line 273: the store of the incremented value
EnviarAsignar(t) ==
  /\ t[2] \in Senders /\ th[t].pc = "snd_inc"
  /\ mensaje_id' = [mensaje_id EXCEPT ![t[1]] = th[t].ld + 1]
  /\ th' = [th EXCEPT ![t].pc = "snd_build"]
  /\ UNCHANGED <<ejecutando, conexion_activa, socket_cliente, socket_principal,
                 mensajes_pendientes, acks_recibidos, stats, nrx, sock, nsock, inbox,
                 backlog, linkdown, delivered, budget>>
  /\ UNCHANGED vars4

\* lines 274-284: the frame, whose id is self.mensaje_id as it is now, and its write
EnviarEscribir(t) ==
  LET i == t[1]
      id == mensaje_id[i]
      m == [th[t].f EXCEPT !.id = id]
      thr == [th[t] EXCEPT !.f = m, !.fid = id] IN
  /\ t[2] \in Senders /\ th[t].pc = "snd_build"
  /\ enviar_mensaje_raw(t, thr, socket_cliente[i], m, "snd_w", "snd_sent")
  /\ UNCHANGED <<ejecutando, socket_principal, mensajes_pendientes, acks_recibidos,
                 mensaje_id, stats, nrx, nsock, backlog, linkdown, delivered, budget>>
  /\ UNCHANGED vars4

\* variant of AckPresente: the poll always succeeds
AckPresenteSiempre(id, acks) == TRUE

\* the poll of line 324
AckPresente(id, acks) == id \in acks

\* the first test of a wait window (lines 320-326): the ACK is already there,
\* or the thread sleeps
VentanaInicio(t, thr, acks) ==
  IF AckPresente(thr.wid, acks[t[1]])
  THEN /\ acks_recibidos' = [acks EXCEPT ![t[1]] = @ \ {thr.wid}]
       /\ th' = [th EXCEPT ![t] = Returned(thr, "True")]
  ELSE /\ acks_recibidos' = acks
       /\ th' = [th EXCEPT ![t] = [thr EXCEPT !.pc = "snd_wait"]]

\* variant of EsperaAck: every send waits for its ACK
EsperaAckSiempre(req) == TRUE

\* line 287: whether the call registers a PendingEntry and waits
EsperaAck(req) == req

\* lines 285-294, after the write succeeded: the counter, the PendingEntry
\* under self.mensaje_id, and the start of _esperar_ack(self.mensaje_id)
EnviarRegistrar(t) ==
  LET i == t[1]
      id == mensaje_id[i] IN
  /\ t[2] \in Senders /\ th[t].pc = "snd_sent"
  /\ stats' = Inc(stats, i, "mensajes_enviados")
  /\ IF EsperaAck(th[t].req)
     THEN /\ mensajes_pendientes' = [mensajes_pendientes EXCEPT ![i] = Put(@, id, th[t].f)]
          /\ VentanaInicio(t, [th[t] EXCEPT !.wid = id, !.reg = TRUE, !.rt = 0], acks_recibidos)
     ELSE /\ th' = [th EXCEPT ![t] = Returned(th[t], "True")]
          /\ UNCHANGED <<mensajes_pendientes, acks_recibidos>>
  /\ UNCHANGED <<ejecutando, conexion_activa, socket_cliente, socket_principal,
                 mensaje_id, nrx, sock, nsock, inbox, backlog, linkdown, delivered,
                 budget>>
  /\ UNCHANGED vars4

\* a poll of the wait window finds the ACK: lines 324-326
EsperarAck(t) ==
  LET i == t[1] IN
  /\ t[2] \in Senders /\ th[t].pc = "snd_wait"
  /\ AckPresente(th[t].wid, acks_recibidos[i])
  /\ acks_recibidos' = [acks_recibidos EXCEPT ![i] = @ \ {th[t].wid}]
  /\ th' = [th EXCEPT ![t] = Returned(th[t], "True")]
  /\ UNCHANGED <<ejecutando, conexion_activa, socket_cliente, socket_principal,
                 mensajes_pendientes, mensaje_id, stats, nrx, sock, nsock, inbox,
                 backlog, linkdown, delivered, budget>>
  /\ UNCHANGED vars4

\* variant of DebeReenviar: one retransmission more
DebeReenviarDeMas(n, id, pend) == n <= max_reintentos /\ id \in DOMAIN pend

\* the retransmission test of line 331
DebeReenviar(n, id, pend) == n < max_reintentos /\ id \in DOMAIN pend

\* the wait window expired: lines 329-334
EsperarTimeout(t) ==
  LET i == t[1]
      n == th[t].rt + 1
      id == th[t].wid
      thr == [th[t] EXCEPT !.rt = n] IN
  /\ t[2] \in Senders /\ th[t].pc = "snd_wait"
  /\ IF DebeReenviar(n, id, mensajes_pendientes[i])
     THEN enviar_mensaje_raw(t, [thr EXCEPT !.retx = @ + 1], socket_cliente[i],
                             mensajes_pendientes[i][id], "snd_rt", "snd_win")
     ELSE /\ th' = [th EXCEPT ![t] = [thr EXCEPT !.pc = "snd_win"]]
          /\ UNCHANGED <<inbox, conexion_activa, socket_cliente, sock>>
  /\ UNCHANGED <<ejecutando, socket_principal, mensajes_pendientes, acks_recibidos,
                 mensaje_id, stats, nrx, nsock, backlog, linkdown, delivered, budget>>
  /\ UNCHANGED vars4

\* variant of OtraVentana: one wait window more
OtraVentanaDeMas(n) == n <= max_reintentos

\* the loop test of line 320
OtraVentana(n) == n < max_reintentos

\* the loop test of line 320: another wait window, or lines 336-341
EsperarVentana(t) ==
  LET i == t[1]
      id == th[t].wid IN
  /\ t[2] \in Senders /\ th[t].pc = "snd_win"
  /\ IF OtraVentana(th[t].rt)
     THEN /\ VentanaInicio(t, th[t], acks_recibidos)
          /\ UNCHANGED mensajes_pendientes
     ELSE /\ mensajes_pendientes' =
               [mensajes_pendientes EXCEPT ![i] = IF id \in DOMAIN @ THEN Del(@, id) ELSE @]
          /\ th' = [th EXCEPT ![t] = Returned(th[t], "False")]
          /\ UNCHANGED acks_recibidos
  /\ UNCHANGED <<ejecutando, conexion_activa, socket_cliente, socket_principal,
                 mensaje_id, stats, nrx, sock, nsock, inbox, backlog, linkdown,
                 delivered, budget>>
  /\ UNCHANGED vars4

(* ---------------------------- _heartbeat_loop -------------------------- *)
\* the sleep ended: lines 348-355; a tick that writes nothing while the
\* instance runs changes nothing, and ends the loop once it is shut down
HeartbeatTick(t) ==
  LET i == t[1] IN
  /\ t[2] = "hb" /\ th[t].pc = "hb_sleep"
  /\ IF conexion_activa[i] /\ socket_cliente[i] # 0
     THEN /\ budget.beats[i] > 0
          /\ budget' = [budget EXCEPT !.beats[i] = @ - 1]
          /\ enviar_mensaje_raw(t, th[t], socket_cliente[i], Heartbeat(nombre(i)),
                                "hb_w", "hb_loop")
     ELSE /\ ~ejecutando[i]
          /\ th' = [th EXCEPT ![t].pc = "done"]
          /\ UNCHANGED <<budget, inbox, conexion_activa, socket_cliente, sock>>
  /\ UNCHANGED <<ejecutando, socket_principal, mensajes_pendientes, acks_recibidos,
                 mensaje_id, stats, nrx, nsock, backlog, linkdown, delivered>>
  /\ UNCHANGED vars4

\* the loop test of line 345 after a heartbeat was written
HeartbeatLoop(t) ==
  LET i == t[1] IN
  /\ t[2] = "hb" /\ th[t].pc = "hb_loop"
  /\ th' = [th EXCEPT ![t].pc = IF ejecutando[i] THEN "hb_sleep" ELSE "done"]
  /\ UNCHANGED <<ejecutando, conexion_activa, socket_cliente, socket_principal,
                 mensajes_pendientes, acks_recibidos, mensaje_id, stats, nrx, sock,
                 nsock, inbox, backlog, linkdown, delivered, budget>>
  /\ UNCHANGED vars4

(* ------------- return from the failure path to its call site ----------- *)
\* _enviar_mensaje_raw lines 313-314 (errores, return False) and what the
\* caller does with False
RetornoFallo(t) ==
  LET i == t[1]
      r == th[t].ret
      thr == [th[t] EXCEPT !.ret = "none", !.cr = 0, !.dur = 0] IN
  /\ th[t].pc = "ret" /\ r \in {"snd_w", "snd_rt", "rx_hb", "rx_ack", "hb_w"}
  /\ stats' = Inc(stats, i, "errores")
  /\ IF r = "hb_w"
     THEN /\ MarkInactive(i)
          /\ th' = [th EXCEPT ![t] = AfterMark(i, thr, "hb2")]
     ELSE /\ th' = [th EXCEPT ![t] =
                      CASE r = "snd_w" -> Returned(thr, "False")
                        [] r = "snd_rt" -> [thr EXCEPT !.pc = "snd_win"]
                        [] r = "rx_hb" -> [thr EXCEPT !.pc = "rx_loop"]
                        [] r = "rx_ack" -> [thr EXCEPT !.pc = "rx_deliver"]]
          /\ UNCHANGED <<conexion_activa, socket_cliente, sock>>
  /\ UNCHANGED <<ejecutando, socket_principal, mensajes_pendientes, acks_recibidos,
                 mensaje_id, nrx, nsock, inbox, backlog, linkdown, delivered, budget>>
  /\ UNCHANGED vars4

\* The same lines as RetornoFallo, for a counter that another thread updates
\* at the same time: 'self.stats['errores'] += 1' (line 313) is a load, an add
\* and a store, and the interpreter may switch threads between them.
ErroresCargar(t) ==
  /\ th[t].pc = "ret" /\ th[t].ret \in {"snd_w", "snd_rt", "rx_hb", "rx_ack"}
  /\ th' = [th EXCEPT ![t].pc = "ret_st", ![t].ld = stats[t[1]].errores]
  /\ UNCHANGED <<ejecutando, conexion_activa, socket_cliente, socket_principal,
                 mensajes_pendientes, acks_recibidos, mensaje_id, stats, nrx, sock,
                 nsock, inbox, backlog, linkdown, delivered, budget>>
  /\ UNCHANGED vars4

ErroresGuardar(t) ==
  LET i == t[1]
      r == th[t].ret
      thr == [th[t] EXCEPT !.ret = "none", !.cr = 0, !.dur = 0, !.ld = 0] IN
  /\ th[t].pc = "ret_st"
  /\ stats' = [stats EXCEPT ![i].errores = th[t].ld + 1]
  /\ th' = [th EXCEPT ![t] =
              CASE r = "snd_w" -> Returned(thr, "False")
                [] r = "snd_rt" -> [thr EXCEPT !.pc = "snd_win"]
                [] r = "rx_hb" -> [thr EXCEPT !.pc = "rx_loop"]
                [] r = "rx_ack" -> [thr EXCEPT !.pc = "rx_deliver"]]
  /\ UNCHANGED <<ejecutando, conexion_activa, socket_cliente, socket_principal,
                 mensajes_pendientes, acks_recibidos, mensaje_id, nrx, sock, nsock,
                 inbox, backlog, linkdown, delivered, budget>>
  /\ UNCHANGED vars4

\* return from a direct call of _conectar_servidor or _manejar_error_conexion:
\* iniciar (lines 78-82) starts the heartbeat thread; the heartbeat loop
\* (line 357) goes back to its loop test
RetornoDirecto(t) ==
  LET i == t[1]
      r == th[t].ret IN
  /\ th[t].pc = "ret" /\ r \in {"ini", "hb2"}
  /\ th' = IF r = "ini"
           THEN [th EXCEPT ![t] = [@ EXCEPT !.pc = "started", !.ret = "none", !.cr = 0, !.dur = 0],
                           ![<<i, "hb", 0>>].pc = "hb_sleep"]
           ELSE [th EXCEPT ![t] = [@ EXCEPT !.pc = "hb_loop", !.ret = "none", !.cr = 0, !.dur = 0]]
  /\ UNCHANGED <<ejecutando, conexion_activa, socket_cliente, socket_principal,
                 mensajes_pendientes, acks_recibidos, mensaje_id, stats, nrx, sock,
                 nsock, inbox, backlog, linkdown, delivered, budget>>
  /\ UNCHANGED vars4

(* -------------------------------- cerrar ------------------------------- *)
\* lines 394-408: the flags and the two close calls
Cerrar(t) ==
  LET i == t[1]
      closedBacklog == [s \in Socks |->
                          IF \E k \in 1..Len(backlog) : backlog[k] = s
                          THEN [sock[s] EXCEPT !.st = "closed"] ELSE sock[s]] IN
  /\ t[2] = "main" /\ th[t].pc = "started"
  /\ i \in budget.cerrar
  /\ ejecutando' = [ejecutando EXCEPT ![i] = FALSE]
  /\ conexion_activa' = [conexion_activa EXCEPT ![i] = FALSE]
  /\ IF socket_principal[i] = "none"
     THEN /\ sock' = CloseSock(sock, socket_cliente[i])
          /\ UNCHANGED <<socket_principal, backlog>>
     ELSE /\ socket_principal' = [socket_principal EXCEPT ![i] = "closed"]
          /\ sock' = CloseSock(closedBacklog, socket_cliente[i])
          /\ backlog' = << >>
  /\ th' = [th EXCEPT ![t].pc = "closing"]
  /\ UNCHANGED <<socket_cliente, mensajes_pendientes, acks_recibidos, mensaje_id,
                 stats, nrx, nsock, inbox, linkdown, delivered, budget>>
  /\ UNCHANGED vars4

\* lines 411-415: each join returns when its thread ends or after 2 seconds
CerrarFin(t) ==
  /\ t[2] = "main" /\ th[t].pc = "closing"
  /\ th' = [th EXCEPT ![t].pc = "closed"]
  /\ UNCHANGED <<ejecutando, conexion_activa, socket_cliente, socket_principal,
                 mensajes_pendientes, acks_recibidos, mensaje_id, stats, nrx, sock,
                 nsock, inbox, backlog, linkdown, delivered, budget>>
  /\ UNCHANGED vars4

(* ----------------------------- environment ----------------------------- *)
\* the network resets the connection of socket s: both ends fail from now on
LinkFail(s) ==
  /\ budget.faults > 0
  /\ sock[s].st = "open" /\ s \notin linkdown
  /\ linkdown' = linkdown \cup {s, sock[s].peer}
  /\ budget' = [budget EXCEPT !.faults = @ - 1]
  /\ UNCHANGED <<ejecutando, conexion_activa, socket_cliente, socket_principal,
                 mensajes_pendientes, acks_recibidos, mensaje_id, stats, th, nrx,
                 sock, nsock, inbox, backlog, delivered>>
  /\ UNCHANGED vars4

\* a peer that is not an instance of this class writes a frame of kind k, or
\* a MENSAJE frame, on the connection of socket s
MaxTramas == 3
TramasAjenas ==
  {Trama(k) : k \in TiposMalformados \cup {TipoDesconocido}} \cup
  {Mensaje(1, "hola", "Ajeno", TRUE)}
Inyecta(s, m) ==
  /\ budget.tramas > 0
  /\ sock[s].st = "open"
  /\ inbox' = [inbox EXCEPT ![s] = Append(@, m)]
  /\ budget' = [budget EXCEPT !.tramas = @ - 1]
  /\ UNCHANGED <<ejecutando, conexion_activa, socket_cliente, socket_principal,
                 mensajes_pendientes, acks_recibidos, mensaje_id, stats, th, nrx,
                 sock, nsock, backlog, linkdown, delivered>>
  /\ UNCHANGED vars4

(* ------------------------ the stream, byte by byte --------------------- *)
\* Here inbox[s] holds the bytes in flight to socket s, not whole frames.
\* struct.pack('!I', n) and struct.unpack('!I', b)[0]: four bytes, the most
\* significant first
pack_I(n) == <<(n \div 16777216) % 256, (n \div 65536) % 256, (n \div 256) % 256, n % 256>>
unpack_I(b) == ((b[1] * 256 + b[2]) * 256 + b[3]) * 256 + b[4]

\* json.dumps(m).encode('utf-8'), shortened: the text of a frame is ASCII
\* (ensure_ascii), one byte per character: '{', a letter for the kind, the
\* decimal digits of its number, 't' or 'f' for requiere_ack, the quoted
\* contenido and remitente, '}'.
RECURSIVE Digitos(_)
Digitos(n) == IF n < 10 THEN <<48 + n>> ELSE Digitos(n \div 10) \o <<48 + (n % 10)>>
CodigoTipo(k) ==
  CASE k = "MENSAJE" -> 77 [] k = "ACK" -> 65 [] k = "HEARTBEAT" -> 72 [] OTHER -> 82
Letras(c) ==
  CASE c = "hola" -> <<104, 111, 108, 97>>
    [] c = "Cliente" -> <<67, 108, 105, 101, 110, 116, 101>>
    [] OTHER -> << >>
json_dumps(m) ==
  <<123, CodigoTipo(m.tipo)>> \o Digitos(IF m.tipo = "ACK" THEN m.mensaje_id ELSE m.id)
    \o <<IF m.requiere_ack THEN 116 ELSE 102>>
    \o <<34>> \o Letras(m.contenido) \o <<34, 34>> \o Letras(m.remitente) \o <<34, 125>>
\* the frames whose bytes are followed
TramasPlan ==
  {Heartbeat("Cliente"), AckFrame(1), AckFrame(12),
   Mensaje(1, "hola", "Cliente", TRUE), Mensaje(12, "", "Cliente", FALSE)}
\* json.loads(text): the frame with this text, or JSONDecodeError
json_loads(b) ==
  IF \E m \in TramasPlan : json_dumps(m) = b
  THEN CHOOSE m \in TramasPlan : json_dumps(m) = b
  ELSE Trama("NOJSON")

\* lines 301-306: longitud + mensaje_bytes handed to sendall
Empaqueta(m) == pack_I(Len(json_dumps(m))) \o json_dumps(m)

\* _enviar_mensaje_raw(plan[k], socket_cliente) by a caller on the initiator:
\* the next frame of the plan is written whole
EscribirRaw(t) ==
  LET s == socket_cliente[t[1]]
      k == budget.nesc + 1 IN
  /\ t = <<"cli", "s1", 0>> /\ th[t].pc = "idle"
  /\ k <= Len(budget.plan)
  /\ s # 0 /\ sock[s].st = "open"
  /\ inbox' = [inbox EXCEPT ![sock[s].peer] = @ \o Empaqueta(budget.plan[k])]
  /\ budget' = [budget EXCEPT !.nesc = k]
  /\ UNCHANGED <<ejecutando, conexion_activa, socket_cliente, socket_principal,
                 mensajes_pendientes, acks_recibidos, mensaje_id, stats, th, nrx,
                 sock, nsock, backlog, linkdown, delivered>>
  /\ UNCHANGED vars4

\* line 195: the number of bytes asked of recv
PedidoFijo(longitud, n) == longitud
Pedido(longitud, n) == longitud - n

\* one recv of _recibir_completo returns, with any number of bytes from one
\* to what was asked; when the bytes are complete the loop of _manejar_cliente
\* goes on: the prefix is unpacked (line 171), or the payload is decoded and
\* parsed (lines 179, 209-212).  What is then done with a parsed frame is
\* RxFrame; it writes nothing on this direction of the stream.
RecvTrozo(t) ==
  LET i == t[1]
      s == th[t].sk
      longitud == IF th[t].pc = "rx_recv" THEN 4 ELSE th[t].lon
      pedido == Pedido(longitud, Len(th[t].datos)) IN
  /\ t[2] = "rx" /\ th[t].pc \in {"rx_recv", "rx_body"}
  /\ s # 0 /\ sock[s].st = "open" /\ inbox[s] # << >>
  /\ \E n \in 1..(IF pedido < Len(inbox[s]) THEN pedido ELSE Len(inbox[s])) :
       LET d == th[t].datos \o SubSeq(inbox[s], 1, n)
           thr == [th[t] EXCEPT !.frag = @ \/ n < pedido] IN
       /\ inbox' = [inbox EXCEPT ![s] = SubSeq(@, n + 1, Len(@))]
       /\ IF Len(d) < longitud
          THEN /\ th' = [th EXCEPT ![t] = [thr EXCEPT !.datos = d]]
               /\ UNCHANGED <<stats, conexion_activa, sock>>
          ELSE IF th[t].pc = "rx_recv"
          THEN IF Len(d) = 4
               THEN /\ th' = [th EXCEPT ![t] =
                              [thr EXCEPT !.pc = "rx_body", !.datos = << >>,
                                          !.lon = unpack_I(d)]]
                    /\ UNCHANGED <<stats, conexion_activa, sock>>
               ELSE \* struct.error, lines 181-185
                    /\ stats' = Inc(stats, i, "errores")
                    /\ limpiar_conexion(i, s)
                    /\ th' = [th EXCEPT ![t] = [thr EXCEPT !.pc = "done", !.datos = << >>]]
          ELSE /\ th' = [th EXCEPT ![t] =
                         [thr EXCEPT !.pc = "rx_recv", !.datos = << >>, !.lon = 0,
                                     !.dec = Append(@, json_loads(d))]]
               /\ stats' = IF json_loads(d).tipo \in TiposMalformados
                           THEN Inc(stats, i, "errores")
                           ELSE Inc(stats, i, "mensajes_recibidos")
               /\ UNCHANGED <<conexion_activa, sock>>
  /\ UNCHANGED <<ejecutando, socket_cliente, socket_principal, mensajes_pendientes,
                 acks_recibidos, mensaje_id, nrx, nsock, backlog, linkdown, delivered,
                 budget>>
  /\ UNCHANGED vars4

(* ---------------------------- specifications --------------------------- *)
Conectar(t) == ConBegin(t) \/ ConOk(t) \/ ConFail(t)
Enviar(t) ==
  \/ \E c \in Contenidos, req \in BOOLEAN : EnviarMensaje(t, c, req)
  \/ EnviarRegistrar(t) \/ EsperarAck(t) \/ EsperarTimeout(t) \/ EsperarVentana(t)
Latido(t) == HeartbeatTick(t) \/ HeartbeatLoop(t)

\* who may call enviar_mensaje, and how often
Llamadas(n) == [t \in Thr |-> IF t = <<"cli", "s1", 0>> THEN n ELSE 0]
NoBeats == [i \in Inst |-> 0]

\* Spec: the pair starts, connects and exchanges messages over a connection
\* that does not fail; one caller on the initiator sends, one call at a time.
Init ==
  InitWith([calls |-> Llamadas(MaxCalls), beats |-> NoBeats, faults |-> 0,
            bindfail |-> FALSE, cerrar |-> {}])
Next ==
  \E t \in Thr :
    \/ Iniciar(t) \/ Conectar(t) \/ RetornoDirecto(t) \/ AccAccept(t)
    \/ RxLoop(t) \/ RxFrame(t) \/ RxDeliver(t) \/ Enviar(t)
Spec == Init /\ [][Next]_vars

\* SpecFallo: the same pair on a network that may reset a connection.
InitFallo ==
  InitWith([calls |-> Llamadas(MaxCallsFallo), beats |-> NoBeats, faults |-> MaxFaults,
            bindfail |-> FALSE, cerrar |-> {}])
NextFallo ==
  \/ Next
  \/ \E t \in Thr : RxClosed(t) \/ RetornoFallo(t)
  \/ \E s \in Socks : LinkFail(s)
SpecFallo == InitFallo /\ [][NextFallo]_vars

\* SpecCierre: the same pair, the acceptor being shut down under the initiator.
InitCierre ==
  InitWith([calls |-> Llamadas(MaxCallsFallo), beats |-> NoBeats, faults |-> 0,
            bindfail |-> FALSE, cerrar |-> {"srv"}])
NextCierre ==
  \/ Next
  \/ \E t \in Thr : RxClosed(t) \/ RetornoFallo(t) \/ AccClosed(t) \/ Cerrar(t) \/ CerrarFin(t)
SpecCierre == InitCierre /\ [][NextCierre]_vars

\* SpecVivo: SpecFallo with every thread of the pair scheduled: a thread that
\* can take a step of its connect sequence eventually takes one.
SpecVivo == InitFallo /\ [][NextFallo]_vars /\ WF_vars(\E t \in Thr : Conectar(t))

\* SpecDos: two callers of enviar_mensaje(requiere_ack=True) run concurrently
\* on the initiator of a connected pair, one call each, over a connection that
\* does not fail.
MaxCallsDos == 1
LlamadasDos == [t \in Thr |-> IF t[1] = "cli" /\ t[2] \in Senders THEN MaxCallsDos ELSE 0]
EnviarFino(t) ==
  \/ \E c \in Contenidos : EnviarLeer(t, c, TRUE)
  \/ EnviarAsignar(t) \/ EnviarEscribir(t)
  \/ EnviarRegistrar(t) \/ EsperarAck(t) \/ EsperarTimeout(t) \/ EsperarVentana(t)
\* the pair after both iniciar() calls returned and the connection was
\* accepted: both receive threads are blocked in recv, nothing was sent
ParConectado ==
  /\ ejecutando = [i \in Inst |-> TRUE]
  /\ conexion_activa = [i \in Inst |-> TRUE]
  /\ socket_cliente = [i \in Inst |-> IF i = "cli" THEN 1 ELSE 2]
  /\ socket_principal = [i \in Inst |-> IF es_servidor(i) THEN "listening" ELSE "none"]
  /\ mensajes_pendientes = [i \in Inst |-> EmptyMap]
  /\ acks_recibidos = [i \in Inst |-> {}]
  /\ mensaje_id = [i \in Inst |-> 0]
  /\ stats = [i \in Inst |-> Stats0]
  /\ th = [t \in Thr |->
            IF t[2] = "main" THEN [Thread0 EXCEPT !.pc = "started"]
            ELSE IF t[2] \in Senders THEN [Thread0 EXCEPT !.pc = "idle"]
            ELSE IF t[2] = "hb" THEN [Thread0 EXCEPT !.pc = "hb_sleep"]
            ELSE IF t = <<"srv", "acc", 0>> THEN [Thread0 EXCEPT !.pc = "acc_wait"]
            ELSE IF t = <<"cli", "rx", 1>> THEN [Thread0 EXCEPT !.pc = "rx_recv", !.sk = 1]
            ELSE IF t = <<"srv", "rx", 1>> THEN [Thread0 EXCEPT !.pc = "rx_recv", !.sk = 2]
            ELSE Thread0]
  /\ nrx = [i \in Inst |-> 1]
  /\ sock = [s \in Socks |->
              IF s = 1 THEN [own |-> "cli", st |-> "open", peer |-> 2]
              ELSE IF s = 2 THEN [own |-> "srv", st |-> "open", peer |-> 1]
              ELSE NoSock]
  /\ nsock = 2
  /\ inbox = [s \in Socks |-> << >>]
  /\ backlog = << >>
  /\ linkdown = {}
  /\ delivered = [i \in Inst |-> << >>]
  /\ Sin4Vias
InitDos ==
  /\ ParConectado
  /\ budget = [calls |-> LlamadasDos, beats |-> NoBeats, faults |-> 0,
               bindfail |-> FALSE, cerrar |-> {}]
NextDos == \E t \in Thr : RxFrame(t) \/ RxDeliver(t) \/ EnviarFino(t)
SpecDos == InitDos /\ [][NextDos]_vars

\* SpecTramas: the acceptor of a connected pair receives frames written by a
\* peer that may write anything.
InitTramas ==
  /\ ParConectado
  /\ budget = [calls |-> Llamadas(0), beats |-> NoBeats, faults |-> 0,
               bindfail |-> FALSE, cerrar |-> {}, tramas |-> MaxTramas]
NextTramas ==
  \/ \E t \in Thr : RxFrame(t) \/ RxDeliver(t) \/ RxMalformada(t) \/ RxClosed(t)
  \/ \E s \in Socks, m \in TramasAjenas : sock[s].own = "srv" /\ Inyecta(s, m)
SpecTramas == InitTramas /\ [][NextTramas]_vars

\* SpecCarrera: the initiator of a connected pair sends on a network that may
\* reset the connection once (the acceptor keeps listening, so the connection
\* attempts succeed), while its peer may also write frames that are not JSON;
\* the increment of errores by the failed writer is a load and a store.
InitCarrera ==
  /\ ParConectado
  /\ budget = [calls |-> Llamadas(MaxCallsFallo), beats |-> NoBeats, faults |-> MaxFaults,
               bindfail |-> FALSE, cerrar |-> {}, tramas |-> MaxTramas]
NextCarrera ==
  \/ \E t \in Thr : \/ ConBegin(t) \/ ConOk(t) \/ AccAccept(t) \/ RxLoop(t)
                     \/ RxFrame(t) \/ RxDeliver(t) \/ RxMalformada(t) \/ RxClosed(t)
                     \/ Enviar(t) \/ ErroresCargar(t) \/ ErroresGuardar(t)
  \/ \E s \in Socks : LinkFail(s)
  \/ \E s \in Socks : sock[s].own = "cli" /\ Inyecta(s, Trama("NOJSON"))
SpecCarrera == InitCarrera /\ [][NextCarrera]_vars

\* SpecTrozos: on a connected pair the initiator writes a plan of up to
\* MaxMensajes frames, any frames in any order, and the acceptor's receive
\* thread reads the bytes in chunks of any size.
Planes ==
  UNION {[1..n -> TramasPlan] : n \in 1..MaxMensajes}
InitTrozos ==
  /\ ParConectado
  /\ \E p \in Planes :
       budget = [calls |-> Llamadas(0), beats |-> NoBeats, faults |-> 0,
                 bindfail |-> FALSE, cerrar |-> {}, plan |-> p, nesc |-> 0]
NextTrozos == \E t \in Thr : EscribirRaw(t) \/ RecvTrozo(t)
SpecTrozos == InitTrozos /\ [][NextTrozos]_vars

\* SpecBind: the pair where the acceptor's bind or listen may fail.
InitBind ==
  InitWith([calls |-> Llamadas(MaxCallsFallo), beats |-> NoBeats, faults |-> 0,
            bindfail |-> TRUE, cerrar |-> {}])
SpecBind == InitBind /\ [][Next]_vars

\* SpecApagado: the pair on a network that does not fail, the initiator
\* writing heartbeats and being shut down by cerrar() at any moment after
\* iniciar() returned.
LatidosCli == [i \in Inst |-> IF i = "cli" THEN MaxBeats ELSE 0]
InitApagado ==
  InitWith([calls |-> Llamadas(MaxCallsFallo), beats |-> LatidosCli, faults |-> 0,
            bindfail |-> FALSE, cerrar |-> {"cli"}])
NextApagado ==
  \/ Next
  \/ \E t \in Thr : RxClosed(t) \/ RetornoFallo(t) \/ Cerrar(t) \/ CerrarFin(t) \/ Latido(t)
SpecApagado == InitApagado /\ [][NextApagado]_vars

\* SpecPuntual: a connected pair on a network that does not fail, one caller
\* on each side.  The frames in flight are handled well within timeout_ack:
\* no wait window expires, and the receive threads and the callers are
\* scheduled.
LlamadasAmbos == [t \in Thr |-> IF t[2] = "s1" THEN MaxCalls ELSE 0]
InitPuntual ==
  /\ ParConectado
  /\ budget = [calls |-> LlamadasAmbos, beats |-> NoBeats, faults |-> 0,
               bindfail |-> FALSE, cerrar |-> {}]
EnviarSinExpirar(t) ==
  \/ \E c \in Contenidos, req \in BOOLEAN : EnviarMensaje(t, c, req)
  \/ EnviarRegistrar(t) \/ EsperarAck(t)
NextPuntual == \E t \in Thr : RxFrame(t) \/ RxDeliver(t) \/ EnviarSinExpirar(t)
SpecPuntual ==
  InitPuntual /\ [][NextPuntual]_vars
  /\ WF_vars(\E t \in Thr : RxFrame(t) \/ RxDeliver(t) \/ EnviarRegistrar(t) \/ EsperarAck(t))

\* SpecLatido: a connected pair on a network that may reset the connection
\* once (the acceptor keeps listening, so the connection attempts succeed);
\* nothing is sent but the heartbeats of the initiator's heartbeat thread.
\* The run is followed until the socket bound is met.
InitLatido ==
  /\ ParConectado
  /\ budget = [calls |-> Llamadas(0), beats |-> LatidosCli, faults |-> MaxFaults,
               bindfail |-> FALSE, cerrar |-> {}]
NextLatido ==
  \/ \E t \in Thr : \/ ConBegin(t) \/ ConOk(t) \/ AccAccept(t) \/ RxLoop(t)
                     \/ RxFrame(t) \/ RxClosed(t) \/ RetornoFallo(t) \/ Latido(t)
  \/ \E s \in Socks : LinkFail(s)
SpecLatido == InitLatido /\ [][NextLatido]_vars

\* SpecEsperaCierre: the initiator is shut down by cerrar() within its first
\* heartbeat interval (the heartbeat thread writes nothing before it ends), and
\* time passes for a caller inside enviar_mensaje: its wait windows expire
\* and its writes return.
EsperaAvanza(t) ==
  EsperarAck(t) \/ EsperarTimeout(t) \/ EsperarVentana(t) \/ RetornoFallo(t)
InitEsperaCierre ==
  InitWith([calls |-> Llamadas(MaxCallsFallo), beats |-> NoBeats, faults |-> 0,
            bindfail |-> FALSE, cerrar |-> {"cli"}])
NextEsperaCierre ==
  \/ Next
  \/ \E t \in Thr : RxClosed(t) \/ RetornoFallo(t) \/ Cerrar(t) \/ CerrarFin(t)
                     \/ HeartbeatTick(t)
SpecEsperaCierre ==
  InitEsperaCierre /\ [][NextEsperaCierre]_vars /\ WF_vars(\E t \in Thr : EsperaAvanza(t))

(* ------------------------------- claims -------------------------------- *)
SenderThr == {t \in Thr : t[2] \in Senders}
RxThr == {t \in Thr : t[2] = "rx"}
\* the call of thread t has returned
HaRetornado(t) == th[t].pc = "idle" /\ th[t].res # "none"
\* the step reads the frame at the head of the receive buffer of socket s
LeeTrama(s) == inbox[s] # << >> /\ inbox'[s] = Tail(inbox[s])
\* the call sites of _enviar_mensaje_raw
SitiosEscritura == {"snd_w", "snd_rt", "rx_hb", "rx_ack", "hb_w"}
\* in this step thread t detects a transport failure: a write fails, or its
\* receive loop reads end-of-stream (or an error) and leaves the loop
DetectaFallo(t) ==
  \/ th[t].ret = "none" /\ th'[t].ret \in SitiosEscritura
  \/ t[2] = "rx" /\ th[t].pc = "rx_recv" /\ th'[t].pc = "done" /\ RecvFails(th[t].sk)

\* C1 (as amended): a call enviar_mensaje(requiere_ack=True) that registered its
\* PendingEntry and whose id no ACK ever named returns False, after exactly
\* max_reintentos - 1 retransmissions and max_reintentos expired wait windows.
C1_ReenviosMenosUno ==
  \A t \in SenderThr :
    HaRetornado(t) /\ th[t].reg /\ ~th[t].acked =>
      /\ th[t].res = "False"
      /\ th[t].retx = max_reintentos - 1
      /\ th[t].rt = max_reintentos

\* C1 as stated: the never-acknowledged call performs exactly max_reintentos
\* retransmissions and then returns False.
C1_ReenviosMax ==
  \A t \in SenderThr :
    HaRetornado(t) /\ th[t].reg /\ ~th[t].acked =>
      th[t].res = "False" /\ th[t].retx = max_reintentos

\* C1 witness: a never-acknowledged call has returned False after its
\* retransmissions.
C1_Testigo ==
  \E t \in SenderThr :
    HaRetornado(t) /\ th[t].reg /\ ~th[t].acked /\ th[t].res = "False" /\ th[t].retx > 0

\* C2 as stated: once a call enviar_mensaje(requiere_ack=True) has returned,
\* mensajes_pendientes holds no entry for the id of the frame it wrote.
C2_SinEntradaAlRetornar ==
  \A t \in SenderThr :
    HaRetornado(t) /\ th[t].req => th[t].fid \notin DOMAIN mensajes_pendientes[t[1]]

\* C3: a call with requiere_ack=False never registers a PendingEntry and never
\* waits, and the step after its successful write returns True and leaves
\* mensajes_pendientes and acks_recibidos as they are.
C3_SinAckRetornaTrue ==
  /\ [](\A t \in SenderThr :
          ~th[t].req => ~th[t].reg /\ th[t].pc \notin {"snd_wait", "snd_win"})
  /\ [][\A t \in SenderThr :
          th[t].pc = "snd_sent" /\ ~th[t].req /\ th'[t].pc # "snd_sent" =>
            /\ th'[t].pc = "idle" /\ th'[t].res = "True"
            /\ mensajes_pendientes' = mensajes_pendientes
            /\ acks_recibidos' = acks_recibidos]_vars

\* C3 witness: a call with requiere_ack=False has returned True although the
\* instance has received no ACK at all.
C3_Testigo ==
  \E t \in SenderThr :
    /\ HaRetornado(t) /\ ~th[t].req /\ th[t].res = "True"
    /\ stats[t[1]].acks_recibidos = 0

\* C4 as stated: every id in acks_recibidos is the id a call in progress is
\* waiting for in _esperar_ack; with no call in progress the set is empty.
C4_AcksSoloEsperados ==
  \A i \in Inst : \A id \in acks_recibidos[i] :
    \E t \in SenderThr :
      t[1] = i /\ th[t].pc \in {"snd_wait", "snd_win"} /\ th[t].wid = id

\* C5: a step that processes an ACK whose id has no entry in mensajes_pendientes
\* changes no PendingEntry, counts no error, and leaves every receive loop
\* that was waiting for a frame waiting for the next one.
C5_AckSinEntrada ==
  [][\A s \in Socks :
       ( /\ LeeTrama(s)
         /\ Head(inbox[s]).tipo = "ACK"
         /\ Head(inbox[s]).mensaje_id \notin DOMAIN mensajes_pendientes[sock[s].own] ) =>
       /\ mensajes_pendientes' = mensajes_pendientes
       /\ stats'[sock[s].own].errores = stats[sock[s].own].errores
       /\ \A t \in RxThr : th[t].pc = "rx_recv" => th'[t].pc = "rx_recv"]_vars

\* C5 witness: an ACK was processed for an id that has no PendingEntry while
\* another id has one.
C5_Testigo ==
  \E i \in Inst : \E id \in acks_recibidos[i] :
    /\ id \notin DOMAIN mensajes_pendientes[i]
    /\ DOMAIN mensajes_pendientes[i] # {}
    /\ \A t \in SenderThr : th[t].wid # id

\* C6 as stated: the step that reads a MENSAJE frame writes the ACK for its id
\* if and only if the frame declares requiere_ack.
C6_AckSiiRequiere ==
  [][\A s \in Socks :
       LeeTrama(s) /\ Head(inbox[s]).tipo = "MENSAJE" =>
         ( inbox'[sock[s].peer] = Append(inbox[sock[s].peer], AckFrame(Head(inbox[s]).id))
           <=> Head(inbox[s]).requiere_ack )]_vars

\* C7 as stated: when the callback is about to be invoked for a frame that
\* requires acknowledgment, the ACK for its id has been written.
C7_AckEscritoAntes ==
  \A t \in RxThr :
    th[t].pc = "rx_deliver" /\ th[t].f.requiere_ack => th[t].ackw = "ok"

\* C7 (as amended): the callback for a frame that requires acknowledgment is
\* invoked only after the ACK write for that frame was attempted and has
\* returned, whether it succeeded or failed; a write that succeeded handed the
\* ACK for the frame's id to the connection in that same step, before the
\* callback (the ACK reaches the peer's receive buffer unless the peer has
\* closed its end).
C7_IntentoAckAntes ==
  /\ [][\A i \in Inst :
          delivered'[i] # delivered[i] =>
            \/ \E t \in RxThr :
                 /\ t[1] = i /\ th[t].pc = "rx_deliver" /\ th'[t].pc # "rx_deliver"
                 /\ th[t].ackw \in {"ok", "fail"}
                 /\ delivered'[i] =
                      Append(delivered[i], <<th[t].f.contenido, th[t].f.remitente>>)
            \/ \E s \in Socks :
                 sock[s].own = i /\ LeeTrama(s) /\ ~Head(inbox[s]).requiere_ack]_vars
  /\ [][\A t \in RxThr :
          th[t].ackw # "ok" /\ th'[t].ackw = "ok" =>
            /\ LeeTrama(th[t].sk)
            /\ sock[sock[th[t].sk].peer].st = "open" =>
                 inbox'[sock[th[t].sk].peer] =
                   Append(inbox[sock[th[t].sk].peer], AckFrame(Head(inbox[th[t].sk]).id))
            /\ delivered' = delivered]_vars

\* C7 witness: the ACK of a frame that requires acknowledgment has been
\* written and its callback has not run yet.
C7_Testigo ==
  \E t \in RxThr :
    /\ th[t].pc = "rx_deliver" /\ th[t].f.requiere_ack /\ th[t].ackw = "ok"
    /\ delivered[t[1]] = << >>

\* C8 as stated: whenever a thread of the running initiator detects a transport
\* failure, the step leaves the connection inactive and the failed socket
\* closed, and the thread starts a connect sequence.
C8_FalloReconecta ==
  [][\A t \in Thr :
       t[1] = "cli" /\ ejecutando["cli"] /\ DetectaFallo(t) =>
         /\ ~conexion_activa'["cli"]
         /\ th'[t].pc = "con_begin"]_vars

\* C9: after a write of the running initiator failed, while its peer accepts
\* connections (no refusal left to the network, sockets left for one
\* connection), the initiator reaches a state where conexion_activa is true
\* and socket_cliente is a connected socket on which a write succeeds.
C9_ReconectaAlFin ==
  ( \E t \in Thr :
      /\ t[1] = "cli" /\ ejecutando["cli"]
      /\ th[t].ret \in SitiosEscritura /\ th[t].pc \in {"con_begin", "ret"}
      /\ ~conexion_activa["cli"] /\ socket_cliente["cli"] = 0
      /\ socket_principal["srv"] = "listening"
      /\ budget.faults = 0 /\ nsock + 2 <= MaxSock )
  ~> ( /\ conexion_activa["cli"]
       /\ WriteOutcomes(socket_cliente["cli"]) = {"ok"} )

\* C9 witness: the initiator is connected again, on a socket created after a
\* write failure.
C9_Testigo ==
  /\ conexion_activa["cli"]
  /\ WriteOutcomes(socket_cliente["cli"]) = {"ok"}
  /\ stats["cli"].errores > 0
  /\ socket_cliente["cli"] > 2

\* C10: no thread of the acceptor is ever in a connect sequence and the
\* acceptor never creates a connecting socket; a failure it detects leaves
\* the connection inactive without a connect; and its conexion_activa turns
\* true only in the step that accepts an inbound connection.
C10_AceptadorNoConecta ==
  /\ [](\A t \in Thr : t[1] = "srv" => th[t].pc \notin {"con_begin", "con_end"})
  /\ [](\A s \in Socks : sock[s].own = "srv" => sock[s].st # "fresh")
  /\ [][\A t \in Thr :
          t[1] = "srv" /\ DetectaFallo(t) =>
            ~conexion_activa'["srv"] /\ th'[t].pc \in {"ret", "done"}]_vars
  /\ [][~conexion_activa["srv"] /\ conexion_activa'["srv"] =>
          /\ backlog # << >> /\ backlog' = Tail(backlog)
          /\ socket_cliente'["srv"] = Head(backlog)]_vars

\* C10 witness: the acceptor went through the failure path of a failed write
\* and is connected again through a second accepted connection.
C10_Testigo ==
  /\ stats["srv"].errores > 0
  /\ conexion_activa["srv"]
  /\ nrx["srv"] = 2

\* C11: a connect sequence of the initiator makes at most max_reintentos
\* connect attempts; the step in which the last of them fails returns False
\* (counting one error) with conexion_activa false; and a thread enters a
\* connect sequence, and a connecting socket is created, only from iniciar or
\* from the connection-failure path.
C11_IntentosAcotados ==
  /\ [](\A t \in Thr :
          th[t].pc \in {"con_begin", "con_end"} =>
            th[t].cr + (IF th[t].pc = "con_end" THEN 1 ELSE 0) <= max_reintentos)
  /\ [][\A t \in Thr :
          th[t].pc = "con_end" /\ th'[t].cr = max_reintentos /\ th[t].cr # th'[t].cr =>
            /\ th'[t].pc = "ret"
            /\ ~conexion_activa'[t[1]]
            /\ stats'[t[1]].errores = stats[t[1]].errores + 1]_vars
  /\ [][\A t \in Thr :
          th[t].pc \notin {"con_begin", "con_end"} /\ th'[t].pc \in {"con_begin", "con_end"} =>
            \/ th[t].pc = "init"
            \/ /\ th'[t].ret \in SitiosEscritura \cup {"hb2"}
               /\ th'[t].ret # th[t].ret \/ th[t].pc = "ret"
               /\ ~conexion_activa'[t[1]] /\ socket_cliente'[t[1]] = 0]_vars
  /\ [][nsock' > nsock /\ sock'[nsock'].st = "fresh" =>
          \E t \in Thr : th[t].pc = "con_begin" /\ th'[t].pc = "con_end"]_vars

\* C11 witness: a connect sequence of the initiator has just failed its last
\* attempt and is about to return False.
C11_Testigo ==
  \E t \in Thr :
    /\ t[1] = "cli" /\ th[t].pc = "ret" /\ th[t].cr = max_reintentos
    /\ ~conexion_activa["cli"]

\* the background threads of an instance
Fondo == {t \in Thr : t[2] \in {"hb", "acc", "rx"}}

\* C12 as stated: once cerrar() has returned, every socket the instance opened
\* is closed and every background thread of the instance has terminated.
C12_TodoCerrado ==
  \A i \in Inst :
    th[<<i, "main", 0>>].pc = "closed" =>
      /\ \A s \in Socks : sock[s].own = i /\ sock[s].st # "unused" => sock[s].st = "closed"
      /\ \A t \in Fondo : t[1] = i => th[t].pc \in {"none", "done"}

\* cerrar() of instance i has been invoked
Cerrado(i) == th[<<i, "main", 0>>].pc \in {"closing", "closed"}
\* the call of thread t is inside _esperar_ack
EnEspera(t) ==
  \/ th[t].pc \in {"snd_wait", "snd_win"}
  \/ th[t].pc = "ret" /\ th[t].ret = "snd_rt"

\* C13 (as amended): a call waiting for its ACK when cerrar() is invoked
\* returns after at most max_reintentos wait windows; it returns True only by
\* consuming an ACK for the id it waits for that the receive loop had stored,
\* and returns False otherwise.
C13_TrasCerrarRetorna ==
  /\ ( \E t \in SenderThr : EnEspera(t) /\ Cerrado(t[1]) )
       ~> ( \A t \in SenderThr : th[t].pc = "idle" )
  /\ [](\A t \in SenderThr : th[t].rt <= max_reintentos)
  /\ [][\A t \in SenderThr :
          Cerrado(t[1]) /\ EnEspera(t) /\ th'[t].pc = "idle" =>
            /\ th'[t].res \in {"True", "False"}
            /\ th'[t].res = "True" =>
                 th[t].wid \in acks_recibidos[t[1]] /\ th[t].wid \notin acks_recibidos'[t[1]]
            /\ th[t].wid \notin acks_recibidos[t[1]] => th'[t].res = "False"]_vars

\* C13 as stated: a call that is waiting for its ACK when cerrar() has been
\* invoked returns False.
C13_RetornaFalse ==
  [][\A t \in SenderThr :
       Cerrado(t[1]) /\ EnEspera(t) /\ th'[t].pc = "idle" => th'[t].res = "False"]_vars

\* C13 witness: after cerrar() a call that registered its PendingEntry saw a
\* write fail on the closed socket and has returned False.
C13_Testigo ==
  \E t \in SenderThr :
    /\ Cerrado(t[1]) /\ HaRetornado(t) /\ th[t].reg /\ th[t].res = "False"
    /\ stats[t[1]].errores > 0

\* C14 as stated: each of two concurrent calls registers its PendingEntry
\* under, and waits for, the id carried by the frame it wrote itself, and
\* returns True only if an ACK naming that id was processed during the call.
C14_EsperaSuId ==
  \A t \in SenderThr :
    /\ th[t].reg => th[t].wid = th[t].fid
    /\ HaRetornado(t) /\ th[t].req /\ th[t].res = "True" => th[t].acked

\* C15 as stated: the ids carried by the frames that enviar_mensaje calls of
\* one instance create are pairwise distinct, and each new frame carries an id
\* greater than the id of every frame created before it.
C15_IdsDistintosCrecientes ==
  /\ [](\A t, u \in SenderThr :
          t # u /\ t[1] = u[1] /\ th[t].fid # 0 => th[t].fid # th[u].fid)
  /\ [][\A t \in SenderThr :
          th[t].pc \in {"idle", "snd_build"} /\ th'[t].fid # 0 /\ th'[t].pc # th[t].pc =>
            \A u \in SenderThr : u[1] = t[1] /\ th[u].fid # 0 => th'[t].fid > th[u].fid]_vars

\* C16 as stated: the step in which a receive loop reads a malformed frame or
\* a frame of unrecognized kind delivers nothing, writes nothing, and leaves
\* the loop waiting for the next frame on the same, still open, connection.
C16_MalformadaSigue ==
  [][\A t \in RxThr :
       ( /\ th[t].pc = "rx_recv" /\ LeeTrama(th[t].sk)
         /\ Head(inbox[th[t].sk]).tipo \in TiposMalformados \cup {TipoDesconocido} ) =>
       /\ th'[t].pc = "rx_recv"
       /\ sock'[th[t].sk].st = "open"
       /\ conexion_activa'[t[1]] = conexion_activa[t[1]]
       /\ delivered' = delivered
       /\ inbox'[sock[th[t].sk].peer] = inbox[sock[th[t].sk].peer]]_vars

\* the initiator made exactly one send on the connection, with
\* requiere_ack=True, and thread t got True for it
UnEnvioAcusado(t) ==
  /\ t[1] = "cli" /\ mensaje_id["cli"] = 1 /\ mensaje_id["srv"] = 0
  /\ HaRetornado(t) /\ th[t].req /\ th[t].res = "True"

Contadores ==
  {"mensajes_enviados", "mensajes_recibidos", "acks_enviados", "acks_recibidos",
   "reconexiones", "errores"}
\* in this step instance i starts a connection lifecycle: it connected or
\* accepted, and started the receive thread of the new connection
NuevaConexion(i) == nrx'[i] = nrx[i] + 1 /\ conexion_activa'[i]

\* C18 (as amended): the step that starts a connection lifecycle (connect by
\* the initiator, first or after a failure, or accept by the acceptor) leaves
\* every counter as it was, except that reconexiones grows by one when the
\* connect succeeded after at least one failed attempt of its sequence.
C18_StatsSeConservan ==
  [][\A i \in Inst :
       NuevaConexion(i) =>
         /\ \A k \in Contadores \ {"reconexiones"} : stats'[i][k] = stats[i][k]
         /\ stats'[i].reconexiones =
              stats[i].reconexiones +
                (IF \E t \in Thr : t[1] = i /\ th[t].pc = "con_end" /\ th'[t].pc = "ret"
                                   /\ th[t].cr > 0
                 THEN 1 ELSE 0)]_vars

\* C18 as stated: the step that starts a connection lifecycle leaves all six
\* counters at zero.
C18_StatsEnCero ==
  [][\A i \in Inst : NuevaConexion(i) => stats'[i] = Stats0]_vars

\* C18 witness: the initiator is connected for the second time and still
\* counts the message it sent on the first connection.
C18_Testigo ==
  /\ nrx["cli"] = 2 /\ conexion_activa["cli"]
  /\ stats["cli"].mensajes_enviados = 1
  /\ stats["cli"].errores > 0

\* C19 as stated: no step of any thread decreases any of the six counters of
\* any instance.
C19_ContadoresNoDecrecen ==
  [][\A i \in Inst : \A k \in Contadores : stats'[i][k] >= stats[i][k]]_vars

\* the receive thread of the acceptor's first connection
ReceptorSrv == <<"srv", "rx", 1>>
\* C20: whatever frames are written on the connection and however the bytes
\* are cut into recv chunks, the frames decoded so far are the frames written
\* so far, in the order written, once the bytes written have been read; before
\* that they are the first of them, in order; and the receive loop never ends
\* or loses its place.
C20_MismosMensajes ==
  LET d == th[ReceptorSrv].dec IN
  /\ Len(d) <= budget.nesc
  /\ \A k \in 1..Len(d) : d[k] = budget.plan[k]
  /\ th[ReceptorSrv].pc \in {"rx_recv", "rx_body"}
  /\ inbox[th[ReceptorSrv].sk] = << >> =>
       /\ Len(d) = budget.nesc
       /\ th[ReceptorSrv].pc = "rx_recv" /\ th[ReceptorSrv].datos = << >>
\* C20 witness: a whole plan of MaxMensajes frames, not all alike, was written
\* and decoded, and some recv returned only a part of what was asked.
C20_Testigo ==
  /\ budget.nesc = MaxMensajes
  /\ th[ReceptorSrv].dec = budget.plan
  /\ th[ReceptorSrv].frag
  /\ budget.plan[1] # budget.plan[2]

\* C21 as stated: once bind or listen has failed in iniciar() of the acceptor,
\* no accept loop runs, and the instance is not started: iniciar() has not
\* returned as it does on success, ejecutando is false and no heartbeat
\* thread runs.
C21_FalloBindFatal ==
  socket_principal["srv"] = "unbound" =>
    /\ th[<<"srv", "acc", 0>>].pc = "none"
    /\ th[<<"srv", "main", 0>>].pc # "started"
    /\ ~ejecutando["srv"]
    /\ th[<<"srv", "hb", 0>>].pc = "none"

\* C22 as stated: when the receive loop of a connection that is no longer the
\* current one ends and cleans up, the current connection, open and marked
\* active, stays marked active.
C22_LimpiezaAjena ==
  [][\A t \in RxThr :
       LET i == t[1] IN
       (/\ th[t].pc \notin {"none", "done"} /\ th'[t].pc = "done"
        /\ socket_cliente[i] # 0 /\ th[t].sk # socket_cliente[i]
        /\ sock[socket_cliente[i]].st = "open" /\ conexion_activa[i])
       => conexion_activa'[i]]_vars

\* C23 as stated: a failed write, of a heartbeat as of a DATA frame, runs the
\* failure path once: when the thread is back at the call site of the write
\* that failed, its next step neither touches the connection state nor starts
\* a connect sequence.
C23_UnaSecuenciaPorFallo ==
  [][\A t \in Thr :
       (th[t].pc = "ret" /\ th[t].ret \in SitiosEscritura /\ th'[t] # th[t])
       => /\ th'[t].pc # "con_begin"
          /\ conexion_activa' = conexion_activa
          /\ socket_cliente' = socket_cliente
          /\ sock' = sock]_vars

\* the active-connection reference of instance i is a connected socket that
\* this instance has not closed
SocketConectado(i) == socket_cliente[i] # 0 /\ sock[socket_cliente[i]].st = "open"
\* C24 as stated: whenever conexion_activa is true socket_cliente is a
\* connected socket not closed by this instance, and every write of
\* _esperar_ack (a retransmission) is made on such a socket.
C24_LectorVeConexion ==
  [][/\ \A i \in Inst : conexion_activa[i] => SocketConectado(i)
     /\ \A t \in SenderThr : th'[t].retx > th[t].retx => SocketConectado(t[1])]_vars

\* C25: in every step in which a connect attempt of an initiator fails, the
\* attempt being the k-th failure of its sequence: if k < max_reintentos the
\* sleep that follows lasts 2^k seconds, twice the sleep that followed failure
\* k-1; if k = max_reintentos no sleep follows.
C25_EsperaDoble ==
  [][\A t \in Thr :
       (th[t].pc = "con_end" /\ th'[t].cr = th[t].cr + 1) =>
         LET k == th'[t].cr IN
         IF k < max_reintentos
         THEN /\ th'[t].dur = 2 ^ k
              /\ k > 1 => th'[t].dur = 2 * th[t].dur
         ELSE th'[t].dur = 0]_vars
\* C25 witness: a sequence that has failed max_reintentos - 1 times and is in
\* its last sleep.
C25_Testigo ==
  \E t \in Thr : /\ th[t].pc = "con_begin" /\ th[t].cr = max_reintentos - 1
                  /\ th[t].dur = 2 ^ (max_reintentos - 1)

\* C26 as stated: a caller of enviar_mensaje is never blocked anywhere but in
\* an ACK wait window (it is never in the sleep or the connect of a connect
\* sequence), and it goes through at most max_reintentos windows.
C26_SoloVentanas ==
  \A t \in SenderThr :
    /\ th[t].pc \notin {"con_begin", "con_end"}
    /\ th[t].rt <= max_reintentos

\* C27 as stated, its first part: the frame handed to every retransmission of
\* a send call is the DATA frame that call wrote first (same id, contenido and
\* remitente).
C27_ReenvioIgual ==
  [][\A t \in SenderThr :
       th'[t].retx = th[t].retx + 1 =>
         mensajes_pendientes[t[1]][th[t].wid] = th[t].f]_vars

\* the MENSAJE frames taken so far by the dispatchers of instance i
Vistos(i) == UNION {th[r].vis : r \in {x \in RxThr : x[1] = i}}
C30_SinConexionSinEfecto ==
  [][\A t \in SenderThr :
       (/\ th[t].pc = "idle" /\ budget'.calls[t] < budget.calls[t]
        /\ ~conexion_activa[t[1]] \/ socket_cliente[t[1]] = 0)
       => /\ th'[t].pc = "idle" /\ th'[t].res = "False"
          /\ mensaje_id' = mensaje_id /\ stats' = stats
          /\ mensajes_pendientes' = mensajes_pendientes
          /\ acks_recibidos' = acks_recibidos
          /\ inbox' = inbox /\ sock' = sock
          /\ conexion_activa' = conexion_activa /\ socket_cliente' = socket_cliente]_vars
\* C30 witness: the initiator's connect sequence has failed for good, and a
\* call made after it has returned False with nothing counted as sent.
C30_Testigo ==
  /\ th[<<"cli", "main", 0>>].pc = "started" /\ ~conexion_activa["cli"]
  /\ th[<<"cli", "s1", 0>>].pc = "idle" /\ th[<<"cli", "s1", 0>>].res = "False"
  /\ budget.calls[<<"cli", "s1", 0>>] < MaxCallsFallo
  /\ mensaje_id["cli"] = 0 /\ stats["cli"].mensajes_enviados = 0
  /\ stats["cli"].errores = 1

\* a connect sequence of instance i succeeds in this step after k failed attempts
ConectaTras(i, k) ==
  \E t \in Thr : /\ t[1] = i /\ th[t].pc = "con_end" /\ th'[t].pc = "ret"
                  /\ th[t].cr = k /\ th'[t].cr = k
                  /\ conexion_activa'[i] /\ nrx'[i] = nrx[i] + 1
\* C31: in every step reconexiones of an instance either stays as it is or
\* grows by one; it grows exactly in the steps in which a connect sequence of
\* the instance succeeds after one or more failed attempts of that sequence,
\* so a sequence that succeeds at its first attempt leaves it unchanged.
C31_ReconexionesExactas ==
  [][\A i \in Inst :
       /\ stats'[i].reconexiones \in {stats[i].reconexiones, stats[i].reconexiones + 1}
       /\ stats'[i].reconexiones = stats[i].reconexiones + 1
            <=> \E k \in 1..max_reintentos : ConectaTras(i, k)
       /\ ConectaTras(i, 0) => stats'[i].reconexiones = stats[i].reconexiones]_vars
\* C31 witness: the initiator has connected twice, once at the first attempt
\* and once after a failed attempt, and counts one reconnection.
C31_Testigo ==
  /\ stats["cli"].reconexiones = 1
  /\ nrx["cli"] = 2
  /\ conexion_activa["cli"]

(* -------------------- 4-way handshake: the two nodes -------------------- *)
\* d[id] = c on a Python dict
Poner(d, id, c) == [x \in DOMAIN d \cup {id} |-> IF x = id THEN c ELSE d[x]]
\* the datagrams in flight once recvfrom returned d: UDP may have handed over
\* a copy and kept the datagram (duplication)
TrasEntrega(d, copia) == IF copia THEN datagramas ELSE datagramas \ {d}
\* recvfrom of the _receptor_loop of node n returns d
Recibe(n, d, copia) ==
  /\ d \in datagramas
  /\ d.destino = n
  /\ copia => budget.duplicados > 0
  /\ budget' = IF copia THEN [budget EXCEPT !.duplicados = @ - 1] ELSE budget

\* iniciar_conexion_4vias up to the sendto of the SYN; pc4["Cliente4V"] is the
\* id of the call of the client's main thread that has sent and not yet stored
IniciarConexionEnviar ==
  LET id == MaxConexiones4 - budget.conexiones + 1 IN
  /\ budget.conexiones > 0
  /\ pc4["Cliente4V"] = 0
  /\ datagramas' = datagramas \cup {Datagrama("SYN", id, 1, "Servidor4V")}
  /\ pc4' = [pc4 EXCEPT !["Cliente4V"] = id]
  /\ budget' = [budget EXCEPT !.conexiones = @ - 1]
  /\ UNCHANGED conexiones_4vias
  /\ UNCHANGED varsTCP

\* iniciar_conexion_4vias: the entry is stored after the SYN was sent
IniciarConexionGuardar ==
  LET id == pc4["Cliente4V"] IN
  /\ id # 0
  /\ conexiones_4vias' =
       [conexiones_4vias EXCEPT !["Cliente4V"] = Poner(@, id, Conexion4("SYN1_SENT", 1))]
  /\ pc4' = [pc4 EXCEPT !["Cliente4V"] = 0]
  /\ UNCHANGED <<datagramas, budget>>
  /\ UNCHANGED varsTCP

\* Cliente4Vias._procesar_mensaje, tipo ACK and secuencia 1
ClienteAck1(d, copia) ==
  LET id == d.conexion_id IN
  /\ Recibe("Cliente4V", d, copia)
  /\ d.tipo = "ACK" /\ d.secuencia = 1
  /\ conexiones_4vias' =
       IF id \in DOMAIN conexiones_4vias["Cliente4V"]
       THEN [conexiones_4vias EXCEPT !["Cliente4V"][id] = Conexion4("ACK1_RECIBIDO", 2)]
       ELSE conexiones_4vias
  /\ datagramas' = TrasEntrega(d, copia)
  /\ UNCHANGED pc4
  /\ UNCHANGED varsTCP

\* Cliente4Vias._procesar_mensaje, tipo SYN and secuencia 2: the final ACK is
\* sent whether or not the id is known
ClienteSyn2(d, copia) ==
  LET id == d.conexion_id IN
  /\ Recibe("Cliente4V", d, copia)
  /\ d.tipo = "SYN" /\ d.secuencia = 2
  /\ datagramas' = TrasEntrega(d, copia) \cup {Datagrama("ACK", id, 2, "Servidor4V")}
  /\ conexiones_4vias' =
       IF id \in DOMAIN conexiones_4vias["Cliente4V"]
       THEN [conexiones_4vias EXCEPT !["Cliente4V"][id] = Conexion4("ESTABLECIDA", 4)]
       ELSE conexiones_4vias
  /\ UNCHANGED pc4
  /\ UNCHANGED varsTCP

\* Servidor4Vias._procesar_mensaje, tipo SYN and secuencia 1, up to the sleep:
\* the ACK is sent; pc4["Servidor4V"] is the id the receptor thread sleeps on
ServidorSyn1(d, copia) ==
  LET id == d.conexion_id IN
  /\ pc4["Servidor4V"] = 0
  /\ Recibe("Servidor4V", d, copia)
  /\ d.tipo = "SYN" /\ d.secuencia = 1
  /\ datagramas' = TrasEntrega(d, copia) \cup {Datagrama("ACK", id, 1, "Cliente4V")}
  /\ pc4' = [pc4 EXCEPT !["Servidor4V"] = id]
  /\ UNCHANGED conexiones_4vias
  /\ UNCHANGED varsTCP

\* the same branch after the sleep: the server's SYN is sent and the entry stored
ServidorSyn2 ==
  LET id == pc4["Servidor4V"] IN
  /\ id # 0
  /\ datagramas' = datagramas \cup {Datagrama("SYN", id, 2, "Cliente4V")}
  /\ conexiones_4vias' =
       [conexiones_4vias EXCEPT !["Servidor4V"] = Poner(@, id, Conexion4("SYN2_SENT", 3))]
  /\ pc4' = [pc4 EXCEPT !["Servidor4V"] = 0]
  /\ UNCHANGED budget
  /\ UNCHANGED varsTCP

\* Servidor4Vias._procesar_mensaje, tipo ACK and secuencia 2
ServidorAck2(d, copia) ==
  LET id == d.conexion_id IN
  /\ pc4["Servidor4V"] = 0
  /\ Recibe("Servidor4V", d, copia)
  /\ d.tipo = "ACK" /\ d.secuencia = 2
  /\ conexiones_4vias' =
       IF id \in DOMAIN conexiones_4vias["Servidor4V"]
       THEN [conexiones_4vias EXCEPT !["Servidor4V"][id] = Conexion4("ESTABLECIDA", 4)]
       ELSE conexiones_4vias
  /\ datagramas' = TrasEntrega(d, copia)
  /\ UNCHANGED pc4
  /\ UNCHANGED varsTCP

\* UDP drops a datagram
Perder(d) ==
  /\ d \in datagramas
  /\ datagramas' = datagramas \ {d}
  /\ UNCHANGED <<conexiones_4vias, pc4, budget>>
  /\ UNCHANGED varsTCP

\* every datagram the two nodes can send
Datagramas4 ==
  {Datagrama(t, id, sec, n) : t \in {"SYN", "ACK"}, id \in Ids4, sec \in {1, 2}, n \in Nodos4}

\* Spec4Vias: the client starts up to MaxConexiones4 handshakes with the
\* server; datagrams are delivered in any order, dropped, or delivered more
\* than once (up to MaxDuplicados4 extra deliveries).
Init4Vias ==
  InitWith([conexiones |-> MaxConexiones4, duplicados |-> MaxDuplicados4])
Next4Vias ==
  \/ IniciarConexionEnviar \/ IniciarConexionGuardar \/ ServidorSyn2
  \/ \E d \in Datagramas4 : Perder(d)
  \/ \E d \in Datagramas4 : \E copia \in BOOLEAN :
       \/ ClienteAck1(d, copia) \/ ClienteSyn2(d, copia)
       \/ ServidorSyn1(d, copia) \/ ServidorAck2(d, copia)
Spec4Vias == Init4Vias /\ [][Next4Vias]_vars

\* C32 as stated: in every step, for every connection id the client holds,
\* paso does not decrease and a connection that is ESTABLECIDA stays
\* ESTABLECIDA.
C32_SoloAvanza ==
  [][\A id \in DOMAIN conexiones_4vias["Cliente4V"] :
       LET a == conexiones_4vias["Cliente4V"][id]
           b == conexiones_4vias'["Cliente4V"][id] IN
       /\ b.paso >= a.paso
       /\ a.estado = "ESTABLECIDA" => b.estado = "ESTABLECIDA"]_vars
====
